---- MODULE Spec2Model ----
(***************************************************************************)
(* A model of the video widget of Netural/Snippets:                        *)
(*   - YouTubeService (VideoController.ts:448-536): the lazy, once-only    *)
(*     loader of the YouTube iframe API and its callback queue;            *)
(*   - VideoController (VideoController.ts:40-438): one widget instance    *)
(*     over a native <video> element or a YouTube player.                  *)
(* The browser and the vendor player are the environment: they deliver     *)
(* clicks, media events, interval ticks, player state changes and the      *)
(* readiness hook.  Every method of the source is an operator from a       *)
(* world record (all of the program's state) to the world after the call,  *)
(* so that a handler's nested calls compose; every action applies one      *)
(* whole handler.                                                          *)
(***************************************************************************)
EXTENDS Integers, Sequences, FiniteSets, TLC

\* ---------------------------------------------------------------- bounds
\* Number of loadAPI calls that pass a callback, besides the controller's.
MaxCallbacks == 2
\* Media length in whole seconds; positions range over 0..MaxTime.
MaxTime == 1
\* The single calls of Calc: media lengths 0..MaxDur, track widths
\* 1..MaxWidth.
MaxDur == 5
MaxWidth == 4
\* Times handed to generateTimeIndicator: 0..MaxSeconds in steps of half a
\* second, and the times around 100 minutes.
MaxSeconds == 125
\* Child lists handed to insertAfter hold up to MaxChildren nodes.
MaxChildren == 4
\* An element handed to firstParentByClass has up to MaxAncestors - 1
\* ancestor elements.
MaxAncestors == 4
\* loadImages is handed up to MaxImages images.
MaxImages == 3
\* Calls of loadAPI a callback can nest before the engine throws its
\* RangeError (maximum call stack size exceeded).
MaxStack == 3

\* ------------------------------------------------------ program constants
\* enum PlayerState (VideoController.ts:22-28)
ENDED == 0
PLAYING == 1
PAUSED == 2
BUFFERING == 3
CUED == 4

\* What the vendor player may pass as event.data: the five values of the
\* enum, and one value on either side that no case of the switch matches
\* (the vendor reports -1 for "unstarted" and 5 for "video cued").
EventData == (ENDED - 1) .. (CUED + 1)
\* getPlayerState() of a player that has reported nothing yet.
Unstarted == ENDED - 1
\* The value the vendor's player reports for a cued video
\* (YT.PlayerState.CUED); PlayerState has no member for it.
VideoCued == CUED + 1

\* The queue entry of the closure the controller's constructor registers,
\* () => this.initYouTubePlayer(external); other clients' callbacks are
\* 1..MaxCallbacks, numbered in registration order.
VcCallback == 0
\* loadAPI() called without a callback.
NoCallback == VcCallback - 1
\* Clients' callbacks that register another one: () => service.loadAPI(child),
\* one that does so the first time it runs only, one that does so each
\* time; and the callback they register.
OnceCallback == MaxCallbacks + 1
AlwaysCallback == MaxCallbacks + 2
ChildCallback == MaxCallbacks + 3

\* The values of the data-external attribute that matter: absent ("none"),
\* the URL of a YouTube video such as https://youtu.be/dQw4w9WgXcQ
\* ("youtube"), a value that contains "youtu" without being one, such as
\* https://example.com/youtu.mp4 ("youtu"), or anything else ("other").
Externals == {"none", "youtube", "youtu", "other"}

\* external.match(/youtu/)
MatchesYoutu(external) == external \in {"youtube", "youtu"}

\* ------------------------------------------------------------- JS numbers
\* What getDuration()/getCurrentTime() can return.
Num(n) == [k |-> "num", n |-> n]
NaN == [k |-> "nan", n |-> 0]
Undefined == [k |-> "undefined", n |-> 0]

\* ------------------------------------------------------------------ state
VARIABLES
    svc,      \* YouTubeService: _isLoadingAPI, _API (TRUE: window.YT captured), _callbacks
    page,     \* document/window: script tags injected, the readiness hook, tags still loading
    vc,       \* VideoController fields: videoElement, youtubePlayer (TRUE: set), youTubeTimer
              \* (0: undefined), muted; status: not constructed, constructed ("ok"), or the
              \* constructor threw ("failed"); destroyed: willDestroy has run
    ui,       \* the widget's markup and the classes the controller toggles on it
    video,    \* the native <video> element (duration: the length of its medium, which
              \* the element reports once metadata is set)
    player,   \* the YT.Player the controller constructed
    timers,   \* ids of the active setInterval timers
    log,      \* callbacks in registration order, and in invocation order
    lastOp    \* the handler that ran last: its name, argument, whether it threw, how
              \* often it rendered the time, the positions it sought, and the active
              \* timers and the player's state when it started

\* A single call of one method or function on given arguments, apart from
\* the widget's run: the callee, its arguments, its result.
VARIABLE calc

\* One call of loadImages and the image requests it starts: the locals max,
\* currentIndex and hasErrors of the call, per image the locals of its
\* loadImage call (timer: the timeout is pending; isTimedOut), the event the
\* browser has delivered for it and the callbacks loadImage has invoked, and
\* done, the callbacks loadImages has invoked.
VARIABLE img

vars == <<svc, page, vc, ui, video, player, timers, log, lastOp, calc, img>>

\* The world a method runs in.  err is the pending exception of the running
\* handler (none when a handler starts), renders the number of timeUpdate()
\* calls the handler has made, sought the positions it has handed to a
\* backend, in order, depth the number of loadAPI calls callbacks have
\* nested.
World ==
    [svc |-> svc, page |-> page, vc |-> vc, ui |-> ui, video |-> video,
     player |-> player, timers |-> timers, log |-> log, err |-> FALSE, renders |-> 0,
     sought |-> <<>>, depth |-> 0]

NewPlayer == [state |-> Unstarted, muted |-> FALSE, currentTime |-> 0, duration |-> 0]

Init ==
    /\ svc = [_isLoadingAPI |-> FALSE, _API |-> FALSE, _callbacks |-> <<>>]
    /\ page = [scriptTags |-> 0, hook |-> FALSE, loading |-> 0]
    /\ vc = [status |-> "none", videoElement |-> FALSE, youtubePlayer |-> FALSE,
             youTubeTimer |-> 0, muted |-> FALSE, destroyed |-> FALSE]
    /\ ui = [external |-> "none", wired |-> FALSE,
             playing |-> FALSE, muted |-> FALSE, timeHidden |-> FALSE,
             width |-> [k |-> "unset"],
             currentTimeText |-> <<>>, lengthText |-> <<>>,
             buffer |-> [left |-> [k |-> "unset"], width |-> [k |-> "unset"]]]
    /\ video = [paused |-> TRUE, muted |-> FALSE, currentTime |-> 0, metadata |-> FALSE,
                duration |-> MaxTime, buffered |-> <<>>]
    /\ player = NewPlayer
    /\ timers = {}
    /\ log = [registered |-> <<>>, invoked |-> <<>>]
    /\ lastOp = [op |-> "init", arg |-> 0, threw |-> FALSE, renders |-> 0,
                 sought |-> <<>>,
                 timers |-> {}, state |-> Unstarted]
    /\ calc = [f |-> "none"]
    /\ img = [started |-> FALSE, max |-> 0, currentIndex |-> 0, hasErrors |-> FALSE,
              images |-> <<>>, done |-> <<>>]

\* --------------------------------------------------------- YouTubeService
\* The closure the constructor passes to loadAPI runs initYouTubePlayer,
\* which is defined with the controller below.
RECURSIVE resolveFrom(_, _, _)
RECURSIVE loadAPI(_, _)

\* _loadAPI without its in-flight guard.
_loadAPI_unguarded(w) ==
    [w EXCEPT !.svc._isLoadingAPI = TRUE,
              !.page.hook = TRUE,
              !.page.scriptTags = @ + 1,
              !.page.loading = @ + 1]

\* private _loadAPI(): start the load unless one is in flight: raise the
\* flag, install window.onYouTubeIframeAPIReady, append the script tag.
_loadAPI(w) ==
    IF w.svc._isLoadingAPI
    THEN w
    ELSE [w EXCEPT !.svc._isLoadingAPI = TRUE,
                   !.page.hook = TRUE,
                   !.page.scriptTags = @ + 1,
                   !.page.loading = @ + 1]

\* get API(): the world after reading the property (a read while the handle
\* is missing triggers _loadAPI); the value read is w.svc._API.
getAPI(w) ==
    IF ~w.svc._API THEN _loadAPI(w) ELSE w

\* The setter with an assignment in the place of its throw.
setAPI_assigns(w) == [w EXCEPT !.svc._API = TRUE]

\* set API(value): always throws.
setAPI(w) == [w EXCEPT !.err = TRUE]

\* A URL is the sequence of its pieces: every occurrence of one of the six
\* alternatives of the regex is one piece, every other character is one.
\* (youtu.be\/|v\/|u\/\w\/|embed\/|watch\?v=|\&v=)
Markers == {"youtu.be/", "v/", "u/w/", "embed/", "watch?v=", "&v="}

\* The characters [^#\&\?] excludes.
Delimiters == {"#", "&", "?"}

\* match[2]: the greedy ^.* makes the first group match the last marker (the
\* second group and the closing .* match whatever follows), and the second
\* group takes the pieces after it up to the first delimiter.
Captured(url) ==
    LET m == CHOOSE i \in 1 .. Len(url) :
                 url[i] \in Markers /\ \A j \in (i + 1) .. Len(url) : url[j] \notin Markers
        stops == {j \in (m + 1) .. Len(url) : url[j] \in Delimiters}
        end == IF stops = {} THEN Len(url)
               ELSE (CHOOSE j \in stops : \A k \in stops : j <= k) - 1
    IN  SubSeq(url, m + 1, end)

Null == [k |-> "null"]

\* parseYouTubeId without the test of the length.
parseYouTubeId_anyLength(url) ==
    IF \E i \in 1 .. Len(url) : url[i] \in Markers
    THEN [k |-> "string", s |-> Captured(url)]
    ELSE Null

\* parseYouTubeId(youtubeURL)
parseYouTubeId(url) ==
    IF (\E i \in 1 .. Len(url) : url[i] \in Markers) /\ Len(Captured(url)) = 11
    THEN [k |-> "string", s |-> Captured(url)]
    ELSE Null

\* ------------------------------------------------------- VideoController
\* setInterval returns an id no timer has carried.  Ids are only compared
\* for equality and the one reference to an id, youTubeTimer, is overwritten
\* by the new id, so the least id no live timer carries stands for a fresh
\* one.
FreshTimer(w) ==
    CHOOSE i \in 1 .. (Cardinality(w.timers) + 1) :
        /\ i \notin w.timers
        /\ \A j \in 1 .. (i - 1) : j \in w.timers

clearInterval(w, id) == [w EXCEPT !.timers = @ \ {id}]

\* private getDuration(): the native duration is NaN until the metadata is
\* loaded; the vendor player reports 0 until then; no backend: undefined.
getDuration(w) ==
    IF w.vc.videoElement
    THEN IF w.video.metadata THEN Num(w.video.duration) ELSE NaN
    ELSE IF w.vc.youtubePlayer THEN Num(w.player.duration) ELSE Undefined

\* private getCurrentTime()
getCurrentTime(w) ==
    IF w.vc.videoElement
    THEN Num(w.video.currentTime)
    ELSE IF w.vc.youtubePlayer THEN Num(w.player.currentTime) ELSE Undefined

\* private isPlaying(): undefined (falsy) when no backend is set.
isPlaying(w) ==
    IF w.vc.videoElement
    THEN ~w.video.paused
    ELSE IF w.vc.youtubePlayer THEN w.player.state = PLAYING ELSE FALSE

\* The test of timeUpdate, 100 * currentPos / maxduration < 99.99, in JS
\* arithmetic: false for NaN (0/0, anything/NaN, undefined) and for
\* Infinity (n/0); for a positive duration it is 10000*cur < 9999*dur.
PercentageBelow9999(cur, dur) ==
    /\ cur.k = "num"
    /\ dur.k = "num"
    /\ dur.n > 0
    /\ 10000 * cur.n < 9999 * dur.n

\* Math.round(n / d) for n >= 0 and d > 0: halves round up.
Round(n, d) == (2 * n + d) \div (2 * d)

\* Strings are sequences of one-character strings.
DigitChars == <<"0", "1", "2", "3", "4", "5", "6", "7", "8", "9">>

\* n + '' for a natural number n: its decimal digits, no padding.
RECURSIVE NumberToString(_)
NumberToString(n) ==
    IF n < 10 THEN <<DigitChars[n + 1]>>
    ELSE Append(NumberToString(n \div 10), DigitChars[(n % 10) + 1])

\* The same function with neither field padded.
generateTimeIndicator_noPad(seconds) ==
    IF seconds.k \notin {"num", "frac"}
    THEN <<"N", "a", "N", ":", "N", "a", "N">>
    ELSE LET d == IF seconds.k = "frac" THEN seconds.d ELSE 1
             minutes == seconds.n \div (60 * d)
             secs == Round(seconds.n - minutes * 60 * d, d)
         IN  NumberToString(minutes) \o <<":">> \o NumberToString(secs)

\* private generateTimeIndicator(seconds), for seconds >= 0: a whole number
\* Num(n) or the fraction n / d ([k |-> "frac"]); NaN and undefined give
\* "NaN:NaN" (NaN < 10 is false and NaN + '' is "NaN").
generateTimeIndicator(seconds) ==
    IF seconds.k \notin {"num", "frac"}
    THEN <<"N", "a", "N", ":", "N", "a", "N">>
    ELSE LET d == IF seconds.k = "frac" THEN seconds.d ELSE 1
             minutes == seconds.n \div (60 * d)
             secs == Round(seconds.n - minutes * 60 * d, d)
         IN  (IF minutes < 10 THEN <<"0">> \o NumberToString(minutes) ELSE NumberToString(minutes))
             \o <<":">>
             \o (IF secs < 10 THEN <<"0">> \o NumberToString(secs) ELSE NumberToString(secs))

RECURSIVE GCD(_, _)
GCD(a, b) == IF b = 0 THEN a ELSE GCD(b, a % b)

\* 100 * currentPos / maxduration as JS computes it: the ratio n / d (in
\* lowest terms) for a positive duration, NaN for 0 / 0 and for operands
\* that are no numbers, Infinity for n / 0.
Percentage(cur, dur) ==
    IF cur.k # "num" \/ dur.k # "num" THEN NaN
    ELSE IF dur.n > 0
    THEN LET g == GCD(100 * cur.n, dur.n)
         IN  [k |-> "ratio", n |-> (100 * cur.n) \div g, d |-> dur.n \div g]
    ELSE IF cur.n = 0 THEN NaN
    ELSE [k |-> "Infinity"]

\* style.width = percentage + '%': the style keeps its value when the
\* string is no length ("NaN%", "Infinity%").
SetWidth(width, percentage) ==
    IF percentage.k = "ratio" THEN percentage ELSE width

\* timeUpdate() with the end of playback at more than 99.99%.
timeUpdate_above(w) ==
    LET cur == getCurrentTime(w)
        dur == getDuration(w)
        w1 == IF cur.k = "num" /\ dur.k = "num" /\ dur.n > 0
                 /\ 10000 * cur.n <= 9999 * dur.n
              THEN [w EXCEPT !.ui.timeHidden = FALSE]
              ELSE [w EXCEPT !.ui.timeHidden = TRUE, !.ui.playing = FALSE]
    IN  [w1 EXCEPT !.ui.width = SetWidth(@, Percentage(cur, dur)),
                   !.ui.currentTimeText = generateTimeIndicator(cur),
                   !.ui.lengthText = generateTimeIndicator(dur),
                   !.renders = @ + 1]

\* timeUpdate(): show or hide the current-time label; at 99.99% or more (or
\* when the comparison is false for NaN) also drop the playing class; then
\* the width of the progress fill and the two time labels.
timeUpdate(w) ==
    LET cur == getCurrentTime(w)
        dur == getDuration(w)
        w1 == IF PercentageBelow9999(cur, dur)
              THEN [w EXCEPT !.ui.timeHidden = FALSE]
              ELSE [w EXCEPT !.ui.timeHidden = TRUE, !.ui.playing = FALSE]
    IN  [w1 EXCEPT !.ui.width = SetWidth(@, Percentage(cur, dur)),
                   !.ui.currentTimeText = generateTimeIndicator(cur),
                   !.ui.lengthText = generateTimeIndicator(dur),
                   !.renders = @ + 1]

\* The click listener of the scrub bar with Math.floor in the place of
\* Math.round.
progressClick_floor(w, layerX, clientWidth) ==
    LET dur == getDuration(w)
        time == IF dur.k = "num" THEN Num((layerX * dur.n) \div clientWidth) ELSE NaN
        w1 == IF w.vc.videoElement
              THEN IF time.k = "num"
                   THEN [w EXCEPT !.video.currentTime = time.n,
                                  !.sought = Append(@, [backend |-> "NativeVideo", time |-> time])]
                   ELSE [w EXCEPT !.err = TRUE,
                                  !.sought = Append(@, [backend |-> "NativeVideo", time |-> time])]
              ELSE w
    IN  IF ~w1.err /\ w1.vc.youtubePlayer
        THEN [w1 EXCEPT !.player.currentTime = IF time.k = "num" THEN time.n ELSE @,
                        !.sought = Append(@, [backend |-> "YouTube", time |-> time])]
        ELSE w1

\* The click listener of the scrub bar, for a click at layerX in a track of
\* clientWidth > 0 pixels: percentage = layerX / clientWidth * 100 and
\* time = Math.round(percentage * getDuration() / 100), in exact arithmetic;
\* NaN when the duration is not a number.  Assigning NaN to
\* videoElement.currentTime throws a TypeError; seekTo(time) moves the
\* vendor player.
progressClick(w, layerX, clientWidth) ==
    LET dur == getDuration(w)
        time == IF dur.k = "num" THEN Num(Round(layerX * dur.n, clientWidth)) ELSE NaN
        w1 == IF w.vc.videoElement
              THEN IF time.k = "num"
                   THEN [w EXCEPT !.video.currentTime = time.n,
                                  !.sought = Append(@, [backend |-> "NativeVideo", time |-> time])]
                   ELSE [w EXCEPT !.err = TRUE,
                                  !.sought = Append(@, [backend |-> "NativeVideo", time |-> time])]
              ELSE w
    IN  IF ~w1.err /\ w1.vc.youtubePlayer
        THEN [w1 EXCEPT !.player.currentTime = IF time.k = "num" THEN time.n ELSE @,
                        !.sought = Append(@, [backend |-> "YouTube", time |-> time])]
        ELSE w1

\* play(): videoElement.play() unpauses unless the browser refuses it
\* (autoplay policy; a click is always allowed) and restarts a medium that
\* has ended; playVideo() only asks the vendor player, whose state arrives
\* later through onStateChange.  The class is added in every case.
play(w, allowed) ==
    LET w1 == IF w.vc.videoElement /\ allowed
              THEN [w EXCEPT !.video.paused = FALSE,
                             !.video.currentTime =
                                 IF w.video.metadata /\ @ = w.video.duration THEN 0 ELSE @]
              ELSE w
    IN  [w1 EXCEPT !.ui.playing = TRUE]

\* pause(): videoElement.pause() / pauseVideo(), then the class is removed.
pause(w) ==
    LET w1 == IF w.vc.videoElement THEN [w EXCEPT !.video.paused = TRUE] ELSE w
    IN  [w1 EXCEPT !.ui.playing = FALSE]

\* togglePlayPause()
togglePlayPause(w) ==
    IF isPlaying(w) THEN pause(w) ELSE play(w, TRUE)

\* mute()
mute(w) ==
    LET w1 == [w EXCEPT !.vc.muted = TRUE]
        w2 == IF w1.vc.videoElement THEN [w1 EXCEPT !.video.muted = TRUE] ELSE w1
        w3 == IF w2.vc.youtubePlayer THEN [w2 EXCEPT !.player.muted = TRUE] ELSE w2
    IN  [w3 EXCEPT !.ui.muted = TRUE]

\* volumeOn()
volumeOn(w) ==
    LET w1 == [w EXCEPT !.vc.muted = FALSE]
        w2 == IF w1.vc.videoElement THEN [w1 EXCEPT !.video.muted = FALSE] ELSE w1
        w3 == IF w2.vc.youtubePlayer THEN [w2 EXCEPT !.player.muted = FALSE] ELSE w2
    IN  [w3 EXCEPT !.ui.muted = FALSE]

\* toggleVolume()
toggleVolume(w) ==
    IF w.vc.muted THEN volumeOn(w) ELSE mute(w)

\* willDestroy()
willDestroy(w) == pause(w)

\* The loop of bufferUpdate from index range (1-based): the index of the
\* first range that holds time, 0 when buffer.start(range) throws for an
\* index past the last range.
RECURSIVE findRange(_, _, _)
findRange(buffer, time, range) ==
    IF range > Len(buffer) THEN 0
    ELSE IF buffer[range].start <= time /\ time <= buffer[range].end THEN range
    ELSE findRange(buffer, time, range + 1)

\* style.width / style.left = Math.round(n / d) + '%'; the style keeps its
\* value when the string is no length (a duration of 0 or NaN gives
\* "NaN%" or "Infinity%").
RoundedPercent(old, n, dur) ==
    IF dur.k = "num" /\ dur.n > 0 THEN [k |-> "percent", n |-> Round(n, dur.n)] ELSE old

\* bufferUpdate() with the width taken from the end of the range alone.
bufferUpdate_fromStart(w) ==
    IF ~w.vc.videoElement
    THEN w
    ELSE LET buffer == w.video.buffered
             range == findRange(buffer, w.video.currentTime, 1)
             dur == IF w.video.metadata THEN Num(w.video.duration) ELSE NaN
         IN  IF range = 0
             THEN w
             ELSE [w EXCEPT
                     !.ui.buffer.width =
                         RoundedPercent(@, buffer[range].end * 100, dur),
                     !.ui.buffer.left = RoundedPercent(@, buffer[range].start * 100, dur)]

\* bufferUpdate(): every exception is caught (no video element; no range
\* holds the position), and the style stays as it was.
bufferUpdate(w) ==
    IF ~w.vc.videoElement
    THEN w
    ELSE LET buffer == w.video.buffered
             range == findRange(buffer, w.video.currentTime, 1)
             dur == IF w.video.metadata THEN Num(w.video.duration) ELSE NaN
         IN  IF range = 0
             THEN w
             ELSE [w EXCEPT
                     !.ui.buffer.width =
                         RoundedPercent(@, buffer[range].end * 100 - buffer[range].start * 100, dur),
                     !.ui.buffer.left = RoundedPercent(@, buffer[range].start * 100, dur)]

\* onStateChange whose PLAYING case starts the poll without cancelling the
\* one before.
onStateChange_noClear(w, data) ==
    LET w0 == [w EXCEPT !.player.state = data]
        w1 == CASE data = ENDED ->
                     clearInterval([w0 EXCEPT !.ui.playing = FALSE], w0.vc.youTubeTimer)
                [] data = PLAYING ->
                     LET a == [w0 EXCEPT !.ui.playing = TRUE]
                         id == FreshTimer(a)
                     IN  [a EXCEPT !.timers = @ \cup {id}, !.vc.youTubeTimer = id]
                [] data = BUFFERING -> timeUpdate(w0)
                [] data = PAUSED ->
                     clearInterval([w0 EXCEPT !.ui.playing = FALSE], w0.vc.youTubeTimer)
                [] data = CUED -> timeUpdate(w0)
                [] OTHER -> w0
    IN  timeUpdate(w1)

\* The 'onStateChange' listener of the player (the vendor has updated
\* getPlayerState() to event.data before it calls the listener).
onStateChange(w, data) ==
    LET w0 == [w EXCEPT !.player.state = data]
        w1 == CASE data = ENDED ->
                     clearInterval([w0 EXCEPT !.ui.playing = FALSE], w0.vc.youTubeTimer)
                [] data = PLAYING ->
                     LET a == clearInterval([w0 EXCEPT !.ui.playing = TRUE], w0.vc.youTubeTimer)
                         id == FreshTimer(a)
                     IN  [a EXCEPT !.timers = @ \cup {id}, !.vc.youTubeTimer = id]
                [] data = BUFFERING -> timeUpdate(w0)
                [] data = PAUSED ->
                     clearInterval([w0 EXCEPT !.ui.playing = FALSE], w0.vc.youTubeTimer)
                [] data = CUED -> timeUpdate(w0)
                [] OTHER -> w0
    IN  timeUpdate(w1)

\* initYouTubePlayer(youTubeURL): throws without the API handle (reading it
\* has the getter's side effect), else constructs the player.
initYouTubePlayer(w) ==
    LET w1 == getAPI(w)
    IN  IF ~w.svc._API
        THEN [w1 EXCEPT !.err = TRUE]
        ELSE [w1 EXCEPT !.vc.youtubePlayer = TRUE, !.player = NewPlayer]

\* ------------------------------------------- YouTubeService, continued
\* One queued callback: the controller's closure, or a client's, which may
\* call loadAPI itself.
runCallback(w, id) ==
    LET w1 == [w EXCEPT !.log.invoked = Append(@, id)]
        first == \A i \in 1 .. Len(w.log.invoked) : w.log.invoked[i] # id
    IN  IF id = VcCallback THEN initYouTubePlayer(w1)
        ELSE IF id = AlwaysCallback \/ (id = OnceCallback /\ first)
        THEN IF w1.depth >= MaxStack
             THEN [w1 EXCEPT !.err = TRUE]
             ELSE LET w2 == loadAPI([w1 EXCEPT !.depth = @ + 1], ChildCallback)
                  IN  [w2 EXCEPT !.depth = @ - 1]
        ELSE w1

\* The loop of _resolveCallbacks from index i (1-based) up to max, the
\* length of the queue when the loop started; an exception leaves the
\* loop, and calling this._callbacks[i] throws a TypeError when a nested
\* _resolveCallbacks has emptied the queue meanwhile.
resolveFrom(w, i, max) ==
    IF i > max \/ w.err
    THEN w
    ELSE IF i > Len(w.svc._callbacks)
    THEN [w EXCEPT !.err = TRUE]
    ELSE resolveFrom(runCallback(w, w.svc._callbacks[i]), i + 1, max)

\* _resolveCallbacks whose loop stops one short (i < max - 1).
_resolveCallbacks_offByOne(w) ==
    LET w1 == resolveFrom(w, 1, Len(w.svc._callbacks) - 1)
    IN  IF w1.err THEN w1 ELSE [w1 EXCEPT !.svc._callbacks = <<>>]

\* private _resolveCallbacks(): call every queued callback, then clear.
_resolveCallbacks(w) ==
    LET w1 == resolveFrom(w, 1, Len(w.svc._callbacks))
    IN  IF w1.err THEN w1 ELSE [w1 EXCEPT !.svc._callbacks = <<>>]

\* loadAPI that starts a load whether or not the handle is there.
loadAPI_alwaysLoad(w, cb) ==
    LET w1 == IF cb # NoCallback
              THEN [w EXCEPT !.svc._callbacks = Append(@, cb),
                             !.log.registered = Append(@, cb)]
              ELSE w
    IN  _loadAPI(w1)

\* loadAPI that resolves the queue while a load is in flight as well.
loadAPI_resolveInFlight(w, cb) ==
    LET w1 == IF cb # NoCallback
              THEN [w EXCEPT !.svc._callbacks = Append(@, cb),
                             !.log.registered = Append(@, cb)]
              ELSE w
    IN  IF w1.svc._API \/ w1.svc._isLoadingAPI THEN _resolveCallbacks(w1) ELSE _loadAPI(w1)

\* loadAPI(callback?)
loadAPI(w, cb) ==
    LET w1 == IF cb # NoCallback
              THEN [w EXCEPT !.svc._callbacks = Append(@, cb),
                             !.log.registered = Append(@, cb)]
              ELSE w
    IN  IF w1.svc._API THEN _resolveCallbacks(w1) ELSE _loadAPI(w1)

\* The hook with its last two statements swapped: the queue is resolved
\* before the handle is captured (an exception skips the capture).
onYouTubeIframeAPIReady_resolveFirst(w) ==
    LET w1 == _resolveCallbacks([w EXCEPT !.svc._isLoadingAPI = FALSE])
    IN  IF w1.err THEN w1 ELSE [w1 EXCEPT !.svc._API = TRUE]

\* The hook _loadAPI installs as window.onYouTubeIframeAPIReady.
onYouTubeIframeAPIReady(w) ==
    _resolveCallbacks([w EXCEPT !.svc._isLoadingAPI = FALSE, !.svc._API = TRUE])

\* ---------------------------------------- VideoController, construction
\* initControls(): look up the controls and attach the click listeners.
initControls(w) == [w EXCEPT !.ui.wired = TRUE]

\* initVideoPlayer(): throws without a <video> child (hasVideo: the markup
\* holds one).
initVideoPlayer(w, hasVideo) ==
    IF ~hasVideo
    THEN [w EXCEPT !.err = TRUE]
    ELSE [w EXCEPT !.vc.videoElement = TRUE]

\* The constructor without the else of its outer if: the native player is
\* set up for every widget.
constructor_bothBackends(w, external, hasVideo, inModal, allowed) ==
    LET w0 == [w EXCEPT !.ui.external = IF MatchesYoutu(external) THEN "youtube" ELSE external]
        w1 == initControls(w0)
        w2 == IF external # "none"
              THEN IF MatchesYoutu(external)
                   THEN loadAPI(w1, VcCallback)
                   ELSE [w1 EXCEPT !.err = TRUE]
              ELSE w1
        w2b == IF w2.err THEN w2 ELSE initVideoPlayer(w2, hasVideo)
        w3 == IF ~w2b.err /\ inModal THEN play(w2b, allowed) ELSE w2b
    IN  [w3 EXCEPT !.vc.status = IF w3.err THEN "failed" ELSE "ok"]

\* constructor(element), on markup with the given data-external value, with
\* or without a <video> child, inside a modal or not (the result of
\* firstParentByClass(this.$(), 'modal')).  Copying data-src to src and
\* videoElement.load() change nothing the controller reads back.  A throw
\* leaves the listeners of initControls attached.  Of the marker, ui keeps
\* the branch it selects: "youtube" for every value that matches /youtu/.
constructor(w, external, hasVideo, inModal, allowed) ==
    LET w0 == [w EXCEPT !.ui.external = IF MatchesYoutu(external) THEN "youtube" ELSE external]
        w1 == initControls(w0)
        w2 == IF external # "none"
              THEN IF MatchesYoutu(external)
                   THEN loadAPI(w1, VcCallback)
                   ELSE [w1 EXCEPT !.err = TRUE]
              ELSE initVideoPlayer(w1, hasVideo)
        w3 == IF ~w2.err /\ inModal THEN play(w2, allowed) ELSE w2
    IN  [w3 EXCEPT !.vc.status = IF w3.err THEN "failed" ELSE "ok"]

\* ------------------------------------------------------------ DOM helpers
\* firstParentByClass returning null.
NoElement == 0

\* firstParentByClass(element, klass), on the chain element, its
\* parentElement, and so on up to the element that has no parentElement
\* (<html> in a document, the root of a detached tree): classes[i] tells
\* whether the i-th of the chain carries klass, body is the position of
\* document.body in the chain (0: not in it), i the position of element.
\* The result is the position of the element returned.
RECURSIVE firstParentByClass(_, _, _)
firstParentByClass(classes, body, i) ==
    IF i = body \/ i = Len(classes)
    THEN NoElement
    ELSE IF classes[i]
    THEN i
    ELSE firstParentByClass(classes, body, i + 1)

\* The nodes of a child list: three elements, a text node and a comment.
Nodes == {"ref", "el", "e1", "t1", "c1"}
IsElement(n) == n \in {"ref", "el", "e1"}

\* The index of node n in a child list, 0 when it is not in it.
IndexOf(children, n) ==
    IF \E i \in 1 .. Len(children) : children[i] = n
    THEN CHOOSE i \in 1 .. Len(children) : children[i] = n
    ELSE 0

RemoveNode(children, n) == SelectSeq(children, LAMBDA x : x # n)

\* refElement.nextElementSibling
nextElementSibling(children, n) ==
    LET later == {j \in (IndexOf(children, n) + 1) .. Len(children) : IsElement(children[j])}
    IN  IF later = {} THEN "null"
        ELSE children[CHOOSE j \in later : \A k \in later : j <= k]

\* refElement.nextSibling
nextSibling(children, n) ==
    IF IndexOf(children, n) < Len(children) THEN children[IndexOf(children, n) + 1] ELSE "null"

\* parent.appendChild(node): a node that is in the list moves.
Node_appendChild(children, node) == Append(RemoveNode(children, node), node)

\* parent.insertBefore(node, child), child one of the children: a node that
\* is in the list moves; inserting a node before itself leaves it in place.
Node_insertBefore(children, node, child) ==
    LET before == IF child = node THEN nextSibling(children, node) ELSE child
        rest == RemoveNode(children, node)
        i == IndexOf(rest, before)
    IN  IF before = "null" THEN Append(rest, node)
        ELSE SubSeq(rest, 1, i - 1) \o <<node>> \o SubSeq(rest, i, Len(rest))

\* insertAfter(element, refElement), on the child list of
\* refElement.parentElement.
insertAfter(children, element, refElement) ==
    IF nextElementSibling(children, refElement) # "null"
    THEN Node_insertBefore(children, element, nextElementSibling(children, refElement))
    ELSE Node_appendChild(children, element)

\* ---------------------------------------------------------------- actions
Commit(w, op, arg) ==
    /\ svc' = w.svc
    /\ page' = w.page
    /\ vc' = w.vc
    /\ ui' = w.ui
    /\ video' = w.video
    /\ player' = w.player
    /\ timers' = w.timers
    /\ log' = w.log
    /\ lastOp' = [op |-> op, arg |-> arg, threw |-> w.err, renders |-> w.renders,
                  sought |-> w.sought,
                  timers |-> timers, state |-> player.state]
    /\ calc' = calc
    /\ img' = img

\* Some client calls loadAPI with a callback of its own.
LoadAPI ==
    /\ Len(SelectSeq(log.registered, LAMBDA c : c # VcCallback)) < MaxCallbacks
    /\ LET cb == Len(SelectSeq(log.registered, LAMBDA c : c # VcCallback)) + 1
       IN  Commit(loadAPI(World, cb), "loadAPI", cb)

\* Some client calls loadAPI().
LoadAPINoCallback ==
    Commit(loadAPI(World, NoCallback), "loadAPI", NoCallback)

\* Some client reads YouTubeService.API.
ReadAPI ==
    Commit(getAPI(World), "getAPI", 0)

\* Some client assigns to YouTubeService.API.
WriteAPI ==
    Commit(setAPI(World), "setAPI", 0)

\* The vendor script of an injected tag has loaded and calls the hook.
HookFires ==
    /\ page.hook
    /\ page.loading > 0
    /\ Commit([onYouTubeIframeAPIReady(World) EXCEPT !.page.loading = @ - 1], "hook", 0)

\* What lastOp keeps of the markup the constructor was given: bit 0, the
\* widget is inside a modal; bit 1, it has a <video> child; bit 2, its
\* marker matches /youtu/ without being the URL of a YouTube video.
CtorArg(external, hasVideo, inModal) ==
    (IF inModal THEN 1 ELSE 0) + (IF hasVideo THEN 2 ELSE 0)
    + (IF external = "youtu" THEN 4 ELSE 0)

\* new VideoController(element)
Construct ==
    /\ vc.status = "none"
    /\ \E external \in Externals, hasVideo \in BOOLEAN, inModal \in BOOLEAN, allowed \in BOOLEAN :
          Commit(constructor(World, external, hasVideo, inModal, allowed), "constructor",
                 CtorArg(external, hasVideo, inModal))

\* A click on the play/pause button.
ClickPlayPause ==
    /\ ui.wired
    /\ ~vc.destroyed
    /\ Commit(togglePlayPause(World), "togglePlayPause", 0)

\* A click on the volume button.
ClickVolume ==
    /\ ui.wired
    /\ ~vc.destroyed
    /\ Commit(toggleVolume(World), "toggleVolume", 0)

\* A click on the scrub bar, at its start, its middle or its end.
ClickProgress ==
    /\ ui.wired
    /\ ~vc.destroyed
    /\ \E layerX \in 0 .. 2 :
          Commit(progressClick(World, layerX, 2), "progressClick", layerX)

\* The public methods, called by the page's own code.
CallPlay ==
    /\ vc.status = "ok"
    /\ ~vc.destroyed
    /\ Commit(play(World, TRUE), "play", 0)

CallPause ==
    /\ vc.status = "ok"
    /\ ~vc.destroyed
    /\ Commit(pause(World), "pause", 0)

CallMute ==
    /\ vc.status = "ok"
    /\ ~vc.destroyed
    /\ Commit(mute(World), "mute", 0)

CallVolumeOn ==
    /\ vc.status = "ok"
    /\ ~vc.destroyed
    /\ Commit(volumeOn(World), "volumeOn", 0)

\* The framework tears the widget down.
WillDestroy ==
    /\ vc.status = "ok"
    /\ ~vc.destroyed
    /\ Commit([willDestroy(World) EXCEPT !.vc.destroyed = TRUE], "willDestroy", 0)

\* The vendor player reports a state change.
OnStateChange ==
    /\ vc.youtubePlayer
    /\ \E data \in EventData :
          Commit(onStateChange(World, data), "onStateChange", data)

\* The interval timer of a poll fires.
IntervalTick ==
    \E id \in timers :
        Commit(timeUpdate(World), "tick", 0)

\* The vendor player's position moves, or its metadata arrives.
PlayerProgress ==
    /\ vc.youtubePlayer
    /\ \E t \in 0 .. MaxTime, d \in {0, MaxTime} :
          /\ d >= player.duration
          /\ <<t, d>> # <<player.currentTime, player.duration>>
          /\ Commit([World EXCEPT !.player.currentTime = t, !.player.duration = d],
                    "playerProgress", 0)

\* 'loadedmetadata' of the native element.
VideoLoadedMetadata ==
    /\ vc.videoElement
    /\ ~video.metadata
    /\ Commit([World EXCEPT !.video.metadata = TRUE,
                             !.ui.lengthText = generateTimeIndicator(Num(video.duration))],
              "loadedmetadata", 0)

\* 'timeupdate' of the native element while it plays: the position has
\* moved; the listener runs timeUpdate().  Reaching the end leaves paused
\* false.
VideoTimeUpdate ==
    /\ vc.videoElement
    /\ video.metadata
    /\ ~video.paused
    /\ \E t \in 0 .. MaxTime :
          Commit(timeUpdate([World EXCEPT !.video.currentTime = t]), "timeupdate", 0)

Next ==
    \/ LoadAPI
    \/ LoadAPINoCallback
    \/ ReadAPI
    \/ WriteAPI
    \/ HookFires
    \/ Construct
    \/ ClickPlayPause
    \/ ClickVolume
    \/ ClickProgress
    \/ CallPlay
    \/ CallPause
    \/ CallMute
    \/ CallVolumeOn
    \/ WillDestroy
    \/ OnStateChange
    \/ IntervalTick
    \/ PlayerProgress
    \/ VideoLoadedMetadata
    \/ VideoTimeUpdate

Spec == Init /\ [][Next]_vars

\* ------------------------------------------------------------ single calls
\* The world of a constructed widget on the given backend, its medium dur
\* seconds long and at position cur; known: the backend has the metadata
\* (until then the native duration is NaN and the vendor's is 0).
WidgetWorld(backend, cur, dur, known) ==
    [World EXCEPT
        !.svc._API = (backend = "YouTube"),
        !.vc.status = "ok",
        !.vc.videoElement = (backend = "NativeVideo"),
        !.vc.youtubePlayer = (backend = "YouTube"),
        !.ui.external = IF backend = "NativeVideo" THEN "none" ELSE "youtube",
        !.ui.wired = TRUE,
        !.video.metadata = (backend = "NativeVideo" /\ known),
        !.video.duration = dur,
        !.video.currentTime = IF backend = "NativeVideo" THEN cur ELSE 0,
        !.player.duration = IF backend = "YouTube" /\ known THEN dur ELSE 0,
        !.player.currentTime = IF backend = "YouTube" THEN cur ELSE 0]

Backends == {"None", "NativeVideo", "YouTube"}

\* One click on the scrub bar of a widget.
CalcProgressClick ==
    /\ calc.f = "none"
    /\ \E backend \in Backends, dur \in 0 .. MaxDur, known \in BOOLEAN,
       clientWidth \in 1 .. MaxWidth :
         \E cur \in 0 .. dur, layerX \in 0 .. clientWidth :
            LET w == WidgetWorld(backend, cur, dur, known)
            IN  /\ calc' = [f |-> "progressClick",
                            in |-> [w |-> w, layerX |-> layerX, clientWidth |-> clientWidth],
                            out |-> progressClick(w, layerX, clientWidth)]
                /\ UNCHANGED <<svc, page, vc, ui, video, player, timers, log, lastOp, img>>

\* One timeUpdate() of a widget, its medium dur seconds long: short media,
\* and one of 10000 seconds at and around 99.99%.
CalcTimeUpdate ==
    /\ calc.f = "none"
    /\ \E backend \in Backends \ {"None"}, known \in BOOLEAN,
          playing \in BOOLEAN, timeHidden \in BOOLEAN,
          dur \in (1 .. MaxDur) \cup {10000} :
          \E cur \in ((0 .. MaxDur) \cup {9998, 9999, 10000}) \cap (0 .. dur) :
             LET w == [WidgetWorld(backend, cur, dur, known) EXCEPT
                          !.ui.playing = playing, !.ui.timeHidden = timeHidden]
             IN  /\ calc' = [f |-> "timeUpdate", in |-> [w |-> w], out |-> timeUpdate(w)]
                 /\ UNCHANGED <<svc, page, vc, ui, video, player, timers, log, lastOp, img>>

\* One generateTimeIndicator(seconds), seconds = h / 2.
CalcGenerateTimeIndicator ==
    /\ calc.f = "none"
    /\ \E h \in (0 .. 2 * MaxSeconds) \cup (11997 .. 12001) :
          LET seconds == IF h % 2 = 0 THEN Num(h \div 2)
                         ELSE [k |-> "frac", n |-> h, d |-> 2]
          IN  /\ calc' = [f |-> "generateTimeIndicator", in |-> [seconds |-> seconds],
                          out |-> generateTimeIndicator(seconds)]
              /\ UNCHANGED <<svc, page, vc, ui, video, player, timers, log, lastOp, img>>

\* URLs: some text, one of the shapes (or none), an id of 10, 11 or 12
\* characters, and what may follow it.
Shapes ==
    {<<m>> : m \in Markers} \cup {<<"?", "v", "=">>, <<>>}

Suffixes ==
    {<<>>, <<"#", "a">>, <<"&", "a">>, <<"?", "a">>, <<"/">>,
     <<"&", "a", "=", "a", "&v=", "a">>, <<"?", "a", "v/", "a">>}

\* One parseYouTubeId(youtubeURL).
CalcParseYouTubeId ==
    /\ calc.f = "none"
    /\ \E prefix \in {<<>>, <<"h">>, <<"h", "v/", "h">>}, shape \in Shapes,
          c \in {"a", "b"}, len \in 10 .. 12, suffix \in Suffixes :
          LET id == [i \in 1 .. len |-> IF i = 1 THEN c ELSE "a"]
              url == prefix \o shape \o id \o suffix
          IN  /\ calc' = [f |-> "parseYouTubeId",
                          in |-> [url |-> url, prefix |-> prefix, shape |-> shape,
                                  id |-> id, suffix |-> suffix],
                          out |-> parseYouTubeId(url)]
              /\ UNCHANGED <<svc, page, vc, ui, video, player, timers, log, lastOp, img>>

\* One 'progress' event of a widget: the element reports up to two
\* buffered ranges (TimeRanges are sorted and disjoint), none before it has
\* its metadata.
CalcBufferUpdate ==
    /\ calc.f = "none"
    /\ \E backend \in Backends, dur \in 1 .. MaxDur, known \in BOOLEAN,
          styled \in BOOLEAN :
          \E cur \in 0 .. dur, a, b, c, d \in 0 .. dur :
             /\ a <= b /\ b <= c /\ c <= d
             /\ b = c => (a = b /\ c = d)
             /\ ~known => a = d
             /\ LET buffered == (IF a < b THEN <<[start |-> a, end |-> b]>> ELSE <<>>)
                                 \o (IF c < d THEN <<[start |-> c, end |-> d]>> ELSE <<>>)
                    w == [WidgetWorld(backend, cur, dur, known) EXCEPT
                             !.video.buffered = buffered,
                             !.ui.buffer = IF styled
                                           THEN [left |-> [k |-> "percent", n |-> 1],
                                                 width |-> [k |-> "percent", n |-> 2]]
                                           ELSE @]
                IN  /\ calc' = [f |-> "bufferUpdate", in |-> [w |-> w], out |-> bufferUpdate(w)]
                    /\ UNCHANGED <<svc, page, vc, ui, video, player, timers, log, lastOp, img>>

\* One insertAfter(el, ref) on a parent whose children are distinct nodes,
\* ref among them.
CalcInsertAfter ==
    /\ calc.f = "none"
    /\ \E len \in 1 .. MaxChildren :
          \E children \in [1 .. len -> Nodes] :
             /\ \A i, j \in 1 .. len : children[i] = children[j] => i = j
             /\ \E i \in 1 .. len : children[i] = "ref"
             /\ calc' = [f |-> "insertAfter", in |-> [children |-> children],
                         out |-> insertAfter(children, "el", "ref")]
             /\ UNCHANGED <<svc, page, vc, ui, video, player, timers, log, lastOp, img>>

\* The readiness hook fires with up to MaxCallbacks client callbacks
\* queued, some of which call loadAPI when they run.
CalcHookFires ==
    /\ calc.f = "none"
    /\ \E len \in 1 .. MaxCallbacks :
          \E queue \in [1 .. len -> {1, OnceCallback, AlwaysCallback}] :
             LET w == [World EXCEPT !.svc._isLoadingAPI = TRUE,
                                    !.svc._callbacks = queue,
                                    !.page = [scriptTags |-> 1, hook |-> TRUE, loading |-> 1],
                                    !.log.registered = queue]
             IN  /\ calc' = [f |-> "onYouTubeIframeAPIReady", in |-> [w |-> w],
                             out |-> [onYouTubeIframeAPIReady(w) EXCEPT !.page.loading = @ - 1]]
                 /\ UNCHANGED <<svc, page, vc, ui, video, player, timers, log, lastOp, img>>

\* loadAPI(callback) once the handle is there (the queue is empty then),
\* with a callback that may call loadAPI when it runs.
CalcLoadAPI ==
    /\ calc.f = "none"
    /\ \E cb \in {1, OnceCallback, AlwaysCallback} :
          LET w == [World EXCEPT !.svc._API = TRUE,
                                 !.page = [scriptTags |-> 1, hook |-> TRUE, loading |-> 0]]
          IN  /\ calc' = [f |-> "loadAPI", in |-> [w |-> w, cb |-> cb], out |-> loadAPI(w, cb)]
              /\ UNCHANGED <<svc, page, vc, ui, video, player, timers, log, lastOp, img>>

\* The pieces of a URL that hold the letters "youtu".
YoutuPieces == {"youtu.be/", "www.youtube.com/", "youtu"}

\* external.match(/youtu/) on a URL given as its pieces.
MatchesYoutuURL(url) == \E i \in 1 .. Len(url) : url[i] \in YoutuPieces

\* The member of Externals a data-external value is: a missing or empty
\* attribute is falsy; of the values that match /youtu/, "youtube" are the
\* ones parseYouTubeId finds an id in.
ExternalOf(url) ==
    IF url = <<>> THEN "none"
    ELSE IF ~MatchesYoutuURL(url) THEN "other"
    ELSE IF parseYouTubeId(url) # Null THEN "youtube" ELSE "youtu"

\* The videoId option initYouTubePlayer(youTubeURL) hands to the player.
videoId(youTubeURL) == parseYouTubeId(youTubeURL)

\* new VideoController(element) once the API is loaded, on markup whose
\* data-external is the given URL: a host, a path shape, an id and a query.
CalcConstructor ==
    /\ calc.f = "none"
    /\ \E host \in {<<>>, <<"www.youtube.com/">>, <<"h">>},
          shape \in Shapes \cup {<<"youtu">>}, len \in {0, 10, 11},
          suffix \in {<<>>, <<"&", "a">>}, inModal \in BOOLEAN :
          LET id == [i \in 1 .. len |-> "a"]
              url == host \o shape \o id \o suffix
              w == [World EXCEPT !.svc._API = TRUE,
                                 !.page = [scriptTags |-> 1, hook |-> TRUE, loading |-> 0]]
              w1 == constructor(w, ExternalOf(url), FALSE, inModal, TRUE)
          IN  /\ calc' = [f |-> "constructor", in |-> [url |-> url, inModal |-> inModal],
                          out |-> [w |-> w1,
                                   videoId |-> IF w1.vc.youtubePlayer THEN videoId(url)
                                               ELSE Undefined]]
              /\ UNCHANGED <<svc, page, vc, ui, video, player, timers, log, lastOp, img>>

\* firstParentByClass(this.$(), 'modal') and the construction of a native
\* widget that starts with it, on every chain of up to MaxAncestors
\* elements.
CalcFirstParentByClass ==
    /\ calc.f = "none"
    /\ \E len \in 1 .. MaxAncestors :
          \E classes \in [1 .. len -> BOOLEAN], body \in 0 .. len :
             LET found == firstParentByClass(classes, body, 1)
             IN  /\ calc' = [f |-> "firstParentByClass",
                             in |-> [classes |-> classes, body |-> body],
                             out |-> [found |-> found,
                                      w |-> constructor(World, "none", TRUE,
                                                        found # NoElement, TRUE)]]
                 /\ UNCHANGED <<svc, page, vc, ui, video, player, timers, log, lastOp, img>>

CalcNext ==
    \/ CalcHookFires
    \/ CalcFirstParentByClass
    \/ CalcConstructor
    \/ CalcLoadAPI
    \/ CalcProgressClick
    \/ CalcTimeUpdate
    \/ CalcGenerateTimeIndicator
    \/ CalcParseYouTubeId
    \/ CalcBufferUpdate
    \/ CalcInsertAfter

Calc == Init /\ [][CalcNext]_vars

\* ------------------------------------------------------------ loadImages
\* updateIndex()
updateIndex(m) ==
    IF m.currentIndex = m.max
    THEN [m EXCEPT !.done = Append(@, IF m.hasErrors THEN "onError" ELSE "onSuccess")]
    ELSE m

\* The onSuccess closure loadImages hands to loadImage for image i.
imageSuccess(m, i) ==
    updateIndex([m EXCEPT !.images[i].calls = Append(@, "onSuccess"),
                          !.currentIndex = @ + 1])

\* The onError closure loadImages hands to loadImage for image i.
imageError(m, i) ==
    updateIndex([m EXCEPT !.images[i].calls = Append(@, "onError"),
                          !.currentIndex = @ + 1,
                          !.hasErrors = TRUE])

\* The callback of loadImage's setTimeout.
onTimeout(m, i) ==
    imageError([m EXCEPT !.images[i].timer = FALSE, !.images[i].isTimedOut = TRUE], i)

\* image.onload without the test of isTimedOut.
onload_noTimedOutTest(m, i) ==
    imageSuccess([m EXCEPT !.images[i].timer = FALSE], i)

\* image.onload
onload(m, i) ==
    LET m1 == [m EXCEPT !.images[i].timer = FALSE]
    IN  IF m1.images[i].isTimedOut THEN m1 ELSE imageSuccess(m1, i)

\* image.onerror
onerror(m, i) ==
    LET m1 == [m EXCEPT !.images[i].timer = FALSE]
    IN  IF m1.images[i].isTimedOut THEN m1 ELSE imageError(m1, i)

\* loadImage(src, onSuccess, onError): the timeout is set, the handlers are
\* attached and the request starts.
loadImage(m) ==
    [m EXCEPT !.images = Append(@, [timer |-> TRUE, isTimedOut |-> FALSE,
                                    event |-> "none", calls |-> <<>>])]

\* The loop of loadImages from index (0-based).
RECURSIVE loadImagesFrom(_, _)
loadImagesFrom(m, index) ==
    IF index < m.max THEN loadImagesFrom(loadImage(m), index + 1) ELSE m

\* loadImages(imageSources, onSuccess, onError) on a list of n images.
loadImages(m, n) ==
    loadImagesFrom([m EXCEPT !.started = TRUE, !.max = n, !.currentIndex = 0,
                             !.hasErrors = FALSE], 0)

\* Some client calls loadImages.
CallLoadImages ==
    /\ ~img.started
    /\ \E n \in 0 .. MaxImages : img' = loadImages(img, n)
    /\ UNCHANGED <<svc, page, vc, ui, video, player, timers, log, lastOp, calc>>

\* The browser delivers the load event of an image; an image gets one of
\* load and error, once.
ImageLoad ==
    /\ \E i \in 1 .. Len(img.images) :
          /\ img.images[i].event = "none"
          /\ img' = onload([img EXCEPT !.images[i].event = "load"], i)
    /\ UNCHANGED <<svc, page, vc, ui, video, player, timers, log, lastOp, calc>>

\* The browser delivers the error event of an image.
ImageError ==
    /\ \E i \in 1 .. Len(img.images) :
          /\ img.images[i].event = "none"
          /\ img' = onerror([img EXCEPT !.images[i].event = "error"], i)
    /\ UNCHANGED <<svc, page, vc, ui, video, player, timers, log, lastOp, calc>>

\* A pending timeout expires.
ImageTimeout ==
    /\ \E i \in 1 .. Len(img.images) :
          /\ img.images[i].timer
          /\ img' = onTimeout(img, i)
    /\ UNCHANGED <<svc, page, vc, ui, video, player, timers, log, lastOp, calc>>

ImagesNext ==
    \/ CallLoadImages
    \/ ImageLoad
    \/ ImageError
    \/ ImageTimeout

Images == Init /\ [][ImagesNext]_vars

\* ------------------------------------------------------------ properties
Range(q) == {q[i] : i \in 1 .. Len(q)}
Count(q, c) == Cardinality({i \in 1 .. Len(q) : q[i] = c})
IsStateChange(data) == lastOp.op = "onStateChange" /\ lastOp.arg = data

\* The backend in use: PlaybackBackend of the data model.
ActiveBackend ==
    IF vc.videoElement THEN "NativeVideo"
    ELSE IF vc.youtubePlayer THEN "YouTube"
    ELSE "None"

\* The mute state of the backend in use.
BackendMuted == IF vc.videoElement THEN video.muted ELSE player.muted

\* C1: when the readiness hook fires after N >= 1 loadAPI calls with a
\* callback, every one of the N callbacks has been invoked exactly once, in
\* registration order, the queue is empty, and exactly one script tag has
\* been injected.
C1_HookResolvesAllInOrder ==
    lastOp.op = "hook" =>
        /\ log.invoked = log.registered
        /\ \A c \in Range(log.registered) : Count(log.invoked, c) = 1
        /\ svc._callbacks = <<>>
        /\ ~lastOp.threw
        /\ page.scriptTags = 1

\* The hook has just fired with three callbacks registered before it.
C1_Witness ==
    /\ lastOp.op = "hook"
    /\ Len(log.registered) >= 3
    /\ Len(log.invoked) >= 3

\* C2: at most one time-update poll is active in every state, and right
\* after a Playing event (a repeated one included) exactly one is.
C2_AtMostOnePoll ==
    /\ Cardinality(timers) <= 1
    /\ IsStateChange(PLAYING) => Cardinality(timers) = 1

\* A Playing event has been handled while the player was already Playing
\* with a poll active, and one poll is active.
C2_Witness ==
    /\ IsStateChange(PLAYING)
    /\ lastOp.state = PLAYING
    /\ lastOp.timers # {}
    /\ Cardinality(timers) = 1

\* C3: right after the handler of a transition from Playing to Ended,
\* Paused, Buffering or Cued, and right after willDestroy, no poll is active.
C3_PollCancelledAwayFromPlaying ==
    /\ (/\ lastOp.op = "onStateChange"
        /\ lastOp.state = PLAYING
        /\ lastOp.arg \in {ENDED, PAUSED, BUFFERING, CUED}) => timers = {}
    /\ lastOp.op = "willDestroy" => timers = {}

\* C4: the service never injects more than one script tag.
C4_AtMostOneScriptTag == page.scriptTags <= 1

\* The load has completed and the service has been used again since.
C4_Witness ==
    /\ page.scriptTags = 1
    /\ svc._API
    /\ lastOp.op \in {"loadAPI", "getAPI"}

\* C5: the youtubePlayer handle is set only if the service's API handle is
\* available; a widget in YouTube mode has its player exactly when its
\* loadAPI callback has been resolved, which is exactly when the API handle
\* is available.
C5_PlayerDeferredUntilReady ==
    /\ vc.youtubePlayer => svc._API
    /\ vc.youtubePlayer <=> VcCallback \in Range(log.invoked)
    /\ (vc.status = "ok" /\ MatchesYoutu(ui.external)) => (vc.youtubePlayer <=> svc._API)
    /\ VcCallback \in Range(svc._callbacks) => ~vc.youtubePlayer

\* The hook has just resolved the controller's queued callback, after the
\* constructor had returned without a player.
C5_Witness ==
    /\ lastOp.op = "hook"
    /\ vc.status = "ok"
    /\ vc.youtubePlayer
    /\ VcCallback \in Range(log.invoked)

\* C6 as stated: the two handles are never both set, and once the
\* constructor has returned the active backend never changes.
C6_BackendFixedAtConstruction ==
    [][/\ ~(vc.videoElement' /\ vc.youtubePlayer')
       /\ vc.status = "ok" => ActiveBackend' = ActiveBackend]_vars

\* C6 as amended: the two handles are never both set, a handle that is set
\* stays set, and once the constructor has returned the active backend
\* changes only from None to YouTube, in a widget in YouTube mode.
C6_BackendFixedByMarkup ==
    [][/\ ~(vc.videoElement' /\ vc.youtubePlayer')
       /\ vc.videoElement => vc.videoElement'
       /\ vc.youtubePlayer => vc.youtubePlayer'
       /\ vc.status = "ok" =>
             \/ ActiveBackend' = ActiveBackend
             \/ /\ ActiveBackend = "None"
                /\ MatchesYoutu(ui.external)
                /\ ActiveBackend' = "YouTube"]_vars

\* A widget in YouTube mode whose player, constructed after the constructor
\* returned, is in use.
C6_Witness ==
    /\ vc.status = "ok"
    /\ ActiveBackend = "YouTube"
    /\ lastOp.op = "onStateChange"

\* What two toggles must bring back.
PlayState(w) == [playing |-> isPlaying(w), class |-> w.ui.playing]
VolumeState(w) ==
    [flag |-> w.vc.muted, class |-> w.ui.muted,
     backend |-> IF w.vc.videoElement THEN w.video.muted ELSE w.player.muted]

\* C7: from every state of a constructed widget, togglePlayPause twice
\* in a row brings back the playing state and the playing class, and
\* toggleVolume twice in a row brings back the mute flag, the backend's mute
\* state and the muted class.
C7_TogglesAreInvolutions ==
    (vc.status = "ok" /\ ~vc.destroyed) =>
        /\ PlayState(togglePlayPause(togglePlayPause(World))) = PlayState(World)
        /\ VolumeState(toggleVolume(toggleVolume(World))) = VolumeState(World)

\* C8: whenever a backend is active, the controller's muted flag equals the
\* backend's mute state.
C8_MuteFlagInSync ==
    ActiveBackend # "None" => vc.muted = BackendMuted

\* C9: right after the handler of a Playing event the root carries the
\* playing class and a poll is active; right after the handler of an Ended
\* or Paused event the root does not carry the class and no poll is active.
C9_StateChangeSideEffects ==
    /\ IsStateChange(PLAYING) => (ui.playing /\ timers # {})
    /\ (IsStateChange(ENDED) \/ IsStateChange(PAUSED)) => (~ui.playing /\ timers = {})

\* C10: a loadAPI call made while the API handle is available (by a client,
\* or by the constructor of a widget in YouTube mode) invokes every queued
\* callback and the one passed, in order, leaves the queue empty, injects
\* no script tag and starts no load.
C10_LoadAPIResolvesSynchronously ==
    [][(/\ svc._API
        /\ \/ lastOp'.op = "loadAPI"
           \/ lastOp'.op = "constructor" /\ MatchesYoutu(ui'.external)) =>
          (/\ svc'._callbacks = <<>>
           /\ log'.invoked =
                 log.invoked \o svc._callbacks \o
                   (IF lastOp'.op = "constructor" THEN <<VcCallback>>
                    ELSE IF lastOp'.arg # NoCallback THEN <<lastOp'.arg>>
                    ELSE <<>>)
           /\ ~lastOp'.threw
           /\ page' = page
           /\ svc'._isLoadingAPI = svc._isLoadingAPI
           /\ svc'._API)]_vars

\* loadAPI has just been called with a callback while the handle was
\* available (the handle is never taken away), and the callback has run.
C10_Witness ==
    /\ lastOp.op = "loadAPI"
    /\ lastOp.arg # NoCallback
    /\ svc._API
    /\ log.invoked[Len(log.invoked)] = lastOp.arg

\* C13: a click at offset x in a track of width w hands the active backend,
\* and no other, the time round(x / w * duration) (halves up; NaN when the
\* duration is not a number), which for a click at the middle is
\* round(duration / 2); the backend takes that position, and the state of
\* the other backend is untouched.
C13_SeekTarget ==
    calc.f = "progressClick" =>
        LET w == calc.in.w
            x == calc.in.layerX
            cw == calc.in.clientWidth
            out == calc.out
            backend == IF w.vc.videoElement THEN "NativeVideo"
                       ELSE IF w.vc.youtubePlayer THEN "YouTube" ELSE "None"
            dur == getDuration(w)
        IN  /\ backend = "None" => (out.sought = <<>> /\ out.video = w.video /\ out.player = w.player)
            /\ backend # "None" =>
                  /\ Len(out.sought) = 1
                  /\ out.sought[1].backend = backend
                  /\ dur.k # "num" => out.sought[1].time = NaN
                  /\ dur.k = "num" =>
                        LET t == out.sought[1].time.n
                        IN  /\ out.sought[1].time.k = "num"
                            /\ 2 * cw * t - cw <= 2 * x * dur.n
                            /\ 2 * x * dur.n < 2 * cw * t + cw
                            /\ 2 * x = cw => (2 * t - 1 <= dur.n /\ dur.n < 2 * t + 1)
                            /\ backend = "NativeVideo" => out.video.currentTime = t
                            /\ backend = "YouTube" => out.player.currentTime = t
                  /\ backend = "NativeVideo" => out.player = w.player
                  /\ backend = "YouTube" => out.video = w.video

\* A click at the middle of the track of a native widget whose medium is 3
\* seconds long has sought 2.
C13_Witness ==
    /\ calc.f = "progressClick"
    /\ calc.in.w.vc.videoElement
    /\ getDuration(calc.in.w) = Num(3)
    /\ 2 * calc.in.layerX = calc.in.clientWidth
    /\ calc.out.video.currentTime = 2

\* C11: until the readiness hook has fired no callback has been invoked and
\* the queue only grows; a loadAPI call made while a load is in flight
\* appends its callback and does nothing else (no tag, no second load).
C11_InFlightOnlyEnqueues ==
    [][~svc'._API =>
          /\ log'.invoked = <<>>
          /\ Len(svc'._callbacks) >= Len(svc._callbacks)
          /\ SubSeq(svc'._callbacks, 1, Len(svc._callbacks)) = svc._callbacks
          /\ (lastOp'.op = "loadAPI" /\ svc._isLoadingAPI) =>
                /\ svc'._callbacks =
                      svc._callbacks \o
                        (IF lastOp'.arg # NoCallback THEN <<lastOp'.arg>> ELSE <<>>)
                /\ svc'._isLoadingAPI
                /\ page' = page
                /\ ~lastOp'.threw]_vars

\* loadAPI has just been called with a callback while a load was in
\* flight: the queue holds three callbacks, none of them invoked.
C11_Witness ==
    /\ lastOp.op = "loadAPI"
    /\ lastOp.arg # NoCallback
    /\ svc._isLoadingAPI
    /\ page.scriptTags = 1
    /\ Len(svc._callbacks) >= 3
    /\ log.invoked = <<>>

\* C12: the constructor throws exactly when the marker is there and its
\* value is not the URL of a YouTube video, or when there is no marker and
\* no <video> child.
C12_ConstructionFailsExactly ==
    lastOp.op = "constructor" =>
        (lastOp.threw <=>
            \/ ui.external = "other"
            \/ ui.external = "youtube" /\ lastOp.arg >= 4
            \/ ui.external = "none" /\ (lastOp.arg \div 2) % 2 = 0)

\* C17: an assignment to YouTubeService.API throws and leaves the handle,
\* the loading flag, the queue and the injected tags as they were.
C17_APIIsReadOnly ==
    [][lastOp'.op = "setAPI" =>
          (lastOp'.threw /\ svc' = svc /\ page' = page)]_vars

\* An assignment has just been tried while a load was in flight with a
\* callback queued.
C17_Witness ==
    /\ lastOp.op = "setAPI"
    /\ lastOp.threw
    /\ svc._isLoadingAPI
    /\ ~svc._API
    /\ svc._callbacks # <<>>

\* C19: the handler of a Buffering or Cued event leaves the set of active
\* polls as it was and renders the time twice; the handler of an Ended,
\* Playing or Paused event renders it once.
C19_RendersPerTransition ==
    /\ (IsStateChange(BUFFERING) \/ IsStateChange(VideoCued)) =>
          (timers = lastOp.timers /\ lastOp.renders = 2)
    /\ (IsStateChange(ENDED) \/ IsStateChange(PLAYING) \/ IsStateChange(PAUSED)) =>
          lastOp.renders = 1

\* C14: for a duration > 0 and a position in [0, duration], timeUpdate
\* sets the width of the progress fill to 100 * position / duration
\* percent; at 99.99 percent or more it hides the current-time label and
\* removes the playing class, below it shows the label and leaves the
\* class as it was.
C14_ProgressWidthAndEnd ==
    (calc.f = "timeUpdate" /\ getDuration(calc.in.w).k = "num") =>
        LET w == calc.in.w
            out == calc.out
            cur == getCurrentTime(w).n
            dur == getDuration(w).n
        IN  dur > 0 =>
               /\ out.ui.width.k = "ratio"
               /\ out.ui.width.n * dur = 100 * cur * out.ui.width.d
               /\ out.renders = 1
               /\ IF 10000 * cur >= 9999 * dur
                  THEN out.ui.timeHidden /\ ~out.ui.playing
                  ELSE ~out.ui.timeHidden /\ out.ui.playing = w.ui.playing

\* timeUpdate at exactly 99.99 percent (9999 of 10000 seconds) of a widget
\* that carried the playing class and showed the label.
C14_Witness ==
    /\ calc.f = "timeUpdate"
    /\ getDuration(calc.in.w) = Num(10000)
    /\ getCurrentTime(calc.in.w) = Num(9999)
    /\ calc.in.w.ui.playing
    /\ ~calc.in.w.ui.timeHidden
    /\ calc.out.ui.timeHidden
    /\ ~calc.out.ui.playing
    /\ calc.out.ui.width = [k |-> "ratio", n |-> 9999, d |-> 100]

\* The number a string of digits denotes.
RECURSIVE DigitsValue(_)
DigitsValue(str) ==
    IF str = <<>> THEN 0
    ELSE 10 * DigitsValue(SubSeq(str, 1, Len(str) - 1))
         + (CHOOSE v \in 0 .. 9 : DigitChars[v + 1] = str[Len(str)])

\* str is digits, a colon, digits; the fields hold the minutes
\* floor(seconds / 60) and round(seconds - minutes * 60), seconds = n / d.
IsTimeIndicatorOf(str, n, d) ==
    /\ \A i \in 1 .. Len(str) : str[i] = ":" \/ \E v \in 1 .. 10 : DigitChars[v] = str[i]
    /\ \E c \in 2 .. Len(str) - 1 :
          /\ str[c] = ":"
          /\ \A i \in 1 .. Len(str) : str[i] = ":" => i = c
          /\ LET m == DigitsValue(SubSeq(str, 1, c - 1))
                 r == DigitsValue(SubSeq(str, c + 1, Len(str)))
             IN  /\ 60 * m * d <= n
                 /\ n < 60 * (m + 1) * d
                 /\ 2 * d * r - d <= 2 * (n - 60 * m * d)
                 /\ 2 * (n - 60 * m * d) < 2 * d * r + d

\* seconds = n / d of the call in calc
CalcSecondsN == calc.in.seconds.n
CalcSecondsD == IF calc.in.seconds.k = "frac" THEN calc.in.seconds.d ELSE 1

\* C15 as stated: for every seconds >= 0 the result is MM:SS, both fields
\* exactly two digits, minutes = floor(seconds / 60) and the seconds field
\* round(seconds - minutes * 60).
C15_AlwaysTwoDigits ==
    calc.f = "generateTimeIndicator" =>
        /\ Len(calc.out) = 5
        /\ calc.out[3] = ":"
        /\ IsTimeIndicatorOf(calc.out, CalcSecondsN, CalcSecondsD)

\* C15: the result is the minutes floor(seconds / 60), a colon and
\* round(seconds - minutes * 60); the seconds field has exactly two digits,
\* the minutes field exactly two below 100 minutes and all the digits of
\* the minutes (three or more) from 100 minutes on; 65 gives "01:05" and 5
\* gives "00:05".
C15_TimeIndicator ==
    calc.f = "generateTimeIndicator" =>
        /\ IsTimeIndicatorOf(calc.out, CalcSecondsN, CalcSecondsD)
        /\ calc.out[Len(calc.out) - 2] = ":"
        /\ CalcSecondsN < 6000 * CalcSecondsD => Len(calc.out) = 5
        /\ CalcSecondsN >= 6000 * CalcSecondsD => Len(calc.out) >= 6
        /\ calc.in.seconds = Num(65) => calc.out = <<"0", "1", ":", "0", "5">>
        /\ calc.in.seconds = Num(5) => calc.out = <<"0", "0", ":", "0", "5">>

\* generateTimeIndicator(65) has given "01:05".
C15_Witness ==
    /\ calc.f = "generateTimeIndicator"
    /\ calc.in.seconds = Num(65)
    /\ calc.out = <<"0", "1", ":", "0", "5">>

\* C16 as stated: for each of the shapes youtu.be/, /v/, /u/<x>/, /embed/,
\* ?v= and &v= with an id of 11 characters in it the result is that id,
\* and the result is null when the URL has none of the shapes or the
\* captured id is not 11 characters long.
C16_EveryShapeRecovered ==
    calc.f = "parseYouTubeId" =>
        /\ (/\ calc.in.shape # <<>>
            /\ Len(calc.in.id) = 11
            /\ (calc.in.suffix = <<>> \/ calc.in.suffix[1] \in Delimiters)) =>
              calc.out = [k |-> "string", s |-> calc.in.id]
        /\ calc.out # Null => Len(calc.out.s) = 11

\* C16: for a URL that holds one of youtu.be/, v/, u/<x>/, embed/,
\* watch?v= and &v= followed by an id of 11 characters, the id followed by
\* the end of the URL or by #, & or ?, and by none of the six after it, the
\* result is that id; the result is null when the URL holds none of the
\* six (?v= without watch is none of them) or when what follows the last of
\* them up to the next #, & or ? is not 11 characters long; a result that
\* is not null is 11 characters long.
C16_ParseYouTubeId ==
    calc.f = "parseYouTubeId" =>
        LET in == calc.in
            clean == in.suffix = <<>> \/ in.suffix[1] \in Delimiters
            markerIn(str) == \E i \in 1 .. Len(str) : str[i] \in Markers
            shaped == in.shape # <<>> /\ in.shape[1] \in Markers
        IN  /\ (shaped /\ Len(in.id) = 11 /\ clean /\ ~markerIn(in.suffix)) =>
                  calc.out = [k |-> "string", s |-> in.id]
            /\ ~markerIn(in.url) => calc.out = Null
            /\ (shaped /\ Len(in.id) # 11 /\ clean /\ ~markerIn(in.suffix)) =>
                  calc.out = Null
            /\ calc.out # Null => Len(calc.out.s) = 11

\* parseYouTubeId has given the id of a URL such as
\* https://www.youtube.com/watch?v=baaaaaaaaaa&a.
C16_Witness ==
    /\ calc.f = "parseYouTubeId"
    /\ calc.in.url = <<"h", "watch?v=", "b", "a", "a", "a", "a", "a", "a", "a", "a", "a", "a",
                       "&", "a">>
    /\ calc.out = [k |-> "string", s |-> calc.in.id]

\* C18: when no buffered range holds the position (or the widget has no
\* native element) bufferUpdate throws nothing and leaves left and width of
\* the buffer fill as they were; otherwise it sets, for the first range in
\* index order that holds the position, left to round(start / duration *
\* 100) percent and width to round(end / duration * 100 - start / duration
\* * 100) percent.
C18_BufferFill ==
    calc.f = "bufferUpdate" =>
        LET w == calc.in.w
            out == calc.out
            buffer == w.video.buffered
            holding == {i \in 1 .. Len(buffer) :
                           buffer[i].start <= w.video.currentTime
                           /\ w.video.currentTime <= buffer[i].end}
        IN  /\ ~out.err
            /\ [out EXCEPT !.ui.buffer = w.ui.buffer] = w
            /\ IF ~w.vc.videoElement \/ holding = {}
               THEN out.ui.buffer = w.ui.buffer
               ELSE LET r == buffer[CHOOSE i \in holding : \A j \in holding : i <= j]
                        dur == w.video.duration
                        left == out.ui.buffer.left
                        width == out.ui.buffer.width
                    IN  /\ left.k = "percent"
                        /\ 2 * dur * left.n - dur <= 200 * r.start
                        /\ 200 * r.start < 2 * dur * left.n + dur
                        /\ width.k = "percent"
                        /\ 2 * dur * width.n - dur <= 200 * (r.end - r.start)
                        /\ 200 * (r.end - r.start) < 2 * dur * width.n + dur

\* bufferUpdate has found the position in the second of two ranges, 2..3 of
\* 3 seconds: left 67%, width 33%.
C18_Witness ==
    /\ calc.f = "bufferUpdate"
    /\ calc.in.w.vc.videoElement
    /\ calc.in.w.video.duration = 3
    /\ calc.in.w.video.buffered = <<[start |-> 0, end |-> 1], [start |-> 2, end |-> 3]>>
    /\ calc.in.w.video.currentTime = 2
    /\ calc.out.ui.buffer = [left |-> [k |-> "percent", n |-> 67],
                             width |-> [k |-> "percent", n |-> 33]]

\* C20: after insertAfter(element, refElement) the element is the next
\* sibling node of refElement, whatever nodes followed refElement.
C20_ImmediateNextSibling ==
    calc.f = "insertAfter" => nextSibling(calc.out, "ref") = "el"

\* C22: the root carries the playing class only while a backend (the native
\* element or a constructed YouTube player) is active.
C22_PlayingClassNeedsBackend ==
    ui.playing => ActiveBackend # "None"

\* C23: timeUpdate removes the playing class or hides the current-time
\* label only at 99.99 percent or more of a duration that is a positive
\* number; with a duration that is 0, NaN or undefined it leaves the class
\* and the label as they were.
C23_EndOnlyAtKnownEnd ==
    calc.f = "timeUpdate" =>
        LET w == calc.in.w
            out == calc.out
            cur == getCurrentTime(w)
            dur == getDuration(w)
            known == dur.k = "num" /\ dur.n > 0
        IN  /\ ((w.ui.playing /\ ~out.ui.playing) \/ (~w.ui.timeHidden /\ out.ui.timeHidden)) =>
                  (known /\ 10000 * cur.n >= 9999 * dur.n)
            /\ ~known =>
                  (out.ui.playing = w.ui.playing /\ out.ui.timeHidden = w.ui.timeHidden)

\* C21: when the queue is resolved, by the hook or by loadAPI, every
\* registered callback runs at most once and nothing is thrown, also when a
\* callback that runs calls loadAPI.
C21_ReentrantResolvesOnce ==
    calc.f \in {"onYouTubeIframeAPIReady", "loadAPI"} =>
        /\ ~calc.out.err
        /\ \A c \in Range(calc.out.log.registered) :
              Count(calc.out.log.invoked, c) <= Count(calc.out.log.registered, c)

\* C24: whenever the constructor accepts a data-external value and the
\* YouTube player is constructed for it, the videoId handed to the player is
\* an id of 11 characters, never null.
C24_VideoIdNeverNull ==
    (calc.f = "constructor" /\ calc.out.w.vc.youtubePlayer) =>
        (calc.out.videoId # Null /\ Len(calc.out.videoId.s) = 11)

\* C27: firstParentByClass returns the nearest ancestor of the element that
\* carries the class, among the ancestors up to and including document.body
\* or the parentless root, and null when none of them carries it; the
\* constructor starts playback exactly when there is such an ancestor.
C27_NearestAncestorCarryingClass ==
    calc.f = "firstParentByClass" =>
        LET classes == calc.in.classes
            top == IF calc.in.body # 0 THEN calc.in.body ELSE Len(classes)
            carriers == {j \in 2 .. top : classes[j]}
        IN  /\ calc.out.found = IF carriers = {} THEN NoElement
                                ELSE CHOOSE j \in carriers : \A k \in carriers : j <= k
            /\ calc.out.w.ui.playing <=> carriers # {}

\* C25: for every list of images, the empty one included, loadImages has
\* called nothing while an image has not settled, and once all have settled
\* it has called exactly one callback once: onSuccess if no image failed or
\* timed out, onError otherwise.
C25_OneCallbackOnceAllSettled ==
    img.started =>
        LET settled == \A i \in 1 .. Len(img.images) : img.images[i].calls # <<>>
            failed == \E i \in 1 .. Len(img.images) : "onError" \in Range(img.images[i].calls)
        IN  img.done = IF ~settled THEN <<>>
                       ELSE IF failed THEN <<"onError">> ELSE <<"onSuccess">>

\* C26: a loadImage call invokes at most one callback, and exactly one once
\* the image's event or the timeout has been handled: onError when the
\* timeout came first (the event that arrives after it invokes nothing),
\* else the callback of the event, after which the timeout is no longer
\* pending.
C26_OneCallbackPerImage ==
    \A i \in 1 .. Len(img.images) :
        LET im == img.images[i]
        IN  /\ Len(im.calls) <= 1
            /\ (im.isTimedOut \/ im.event # "none") => Len(im.calls) = 1
            /\ im.isTimedOut => (im.calls = <<"onError">> /\ ~im.timer)
            /\ im.event # "none" => ~im.timer
            /\ (~im.isTimedOut /\ im.event = "load") => im.calls = <<"onSuccess">>
            /\ (~im.isTimedOut /\ im.event = "error") => im.calls = <<"onError">>

\* An image whose load event arrived after its timeout had fired.
C26_Witness ==
    \E i \in 1 .. Len(img.images) :
        /\ img.images[i].isTimedOut
        /\ img.images[i].event = "load"
        /\ img.images[i].calls = <<"onError">>

====
